---- MODULE Spec2Model ----
(***************************************************************************)
(* Transcript cleaning pipeline of clean-transcript.py: clean_text,        *)
(* process_vtt, remove_line_stuttering, remove_word_stuttering,            *)
(* clean_transcript and main.  A text is a sequence of one-character       *)
(* strings, so that the regular expressions of the source can be modelled  *)
(* character by character.                                                 *)
(***************************************************************************)
EXTENDS Integers, Sequences, FiniteSets, TLC

\* ------------------------------------------------------------------ bounds
\* number of pieces an enumerated input of remove_word_stuttering is made of
MaxWordPieces == 4

\* number of pieces an enumerated input of clean_text is made of
MaxCleanPieces == 5

\* number of lines of an enumerated transcript of remove_line_stuttering
MaxLines == 3

\* number of pieces an enumerated document of main is made of
MaxDocPieces == 3

\* the lines and blocks of the enumerated contents of vttclean: at most this many
MaxVttPieces == 3

\* ------------------------------------------------------ characters, strings
Lowercase == <<"a","b","c","d","e","f","g","h","i","j","k","l","m",
               "n","o","p","q","r","s","t","u","v","w","x","y","z">>

Uppercase == <<"A","B","C","D","E","F","G","H","I","J","K","L","M",
               "N","O","P","Q","R","S","T","U","V","W","X","Y","Z">>

Digits == {"0","1","2","3","4","5","6","7","8","9"}

Range(f) == { f[i] : i \in DOMAIN f }

\* the characters of the class \w of the re module
WordChars == Range(Lowercase) \cup Range(Uppercase) \cup Digits \cup {"_"}

IsWordChar(c) == c \in WordChars

\* the characters of the class \s of the re module, which are also the
\* characters str.strip() removes
SpaceChars == {" ", "\t", "\n", "\r", "\f"}

IsSpace(c) == c \in SpaceChars

\* the class \d of the re module
IsDigit(c) == c \in Digits

\* the characters of the class [a-zA-Z]
AlphaChars == Range(Lowercase) \cup Range(Uppercase)

IsAlpha(c) == c \in AlphaChars

\* the lower-case letter of each upper-case letter
FoldMap ==
    [ c \in Range(Uppercase) |-> Lowercase[CHOOSE i \in 1..26 : Uppercase[i] = c] ]

\* case folding of one character, as re.IGNORECASE and str.lower() do it
Fold(c) == IF c \in DOMAIN FoldMap THEN FoldMap[c] ELSE c

\* str.lower()
Lower(s) == [ i \in 1..Len(s) |-> Fold(s[i]) ]

\* the slice s[i..j] (1-based, inclusive), empty when j < i
Slice(s, i, j) == IF j < i THEN <<>> ELSE SubSeq(s, i, j)

\* whether t occurs in s at position i (s[i..i+len(t)-1] = t)
OccursAt(s, t, i) ==
    /\ i >= 1
    /\ i + Len(t) - 1 <= Len(s)
    /\ \A k \in 1..Len(t) : s[i + k - 1] = t[k]

\* the Python test `t in s`
Contains(s, t) == \E i \in 1..(Len(s) + 1) : OccursAt(s, t, i)

\* str.startswith and str.endswith
StartsWith(s, t) == OccursAt(s, t, 1)

EndsWith(s, t) == OccursAt(s, t, Len(s) - Len(t) + 1)

\* the zero-width assertion \b at the gap after s[p] (p = 0: start of text)
WordBoundary(s, p) ==
    LET before == p >= 1 /\ p <= Len(s) /\ IsWordChar(s[p])
        after  == p + 1 >= 1 /\ p + 1 <= Len(s) /\ IsWordChar(s[p + 1])
    IN  before # after

\* str.strip(): both ends freed of whitespace
RECURSIVE LStrip(_)
LStrip(s) == IF s # <<>> /\ IsSpace(s[1]) THEN LStrip(Tail(s)) ELSE s

RECURSIVE RStrip(_)
RStrip(s) ==
    IF s # <<>> /\ IsSpace(s[Len(s)]) THEN RStrip(SubSeq(s, 1, Len(s) - 1)) ELSE s

Strip(s) == RStrip(LStrip(s))

\* the concatenation of a sequence of texts
RECURSIVE Concat(_)
Concat(ss) == IF ss = <<>> THEN <<>> ELSE Head(ss) \o Concat(Tail(ss))

\* sep.join(ss)
RECURSIVE Join(_, _)
Join(sep, ss) ==
    IF ss = <<>> THEN <<>>
    ELSE IF Len(ss) = 1 THEN ss[1]
    ELSE ss[1] \o sep \o Join(sep, Tail(ss))

\* the largest element of a non-empty set of integers
MaxOf(S) == CHOOSE x \in S : \A y \in S : y <= x

\* the smallest element of a non-empty set of integers
MinOf(S) == CHOOSE x \in S : \A y \in S : x <= y

\* all sequences of at most n elements of S
SeqsUpTo(S, n) == UNION { [1..k -> S] : k \in 0..n }

\* the value None
None == <<"None">>

\* the token the source calls [SPEAKER_TURN]
SPEAKER_TURN == <<"[","S","P","E","A","K","E","R","_","T","U","R","N","]">>

\* --------------------------------------------- remove_word_stuttering regexes
\* whether s[i..j] is a non-empty run of \w characters
IsWordRun(s, i, j) == i <= j /\ \A k \in i..j : IsWordChar(s[k])

\* whether s[i..j] is a non-empty run of \s characters
IsSpaceRun(s, i, j) == i <= j /\ \A k \in i..j : IsSpace(s[k])

\* a backreference that compares case-sensitively (re.IGNORECASE left out)
BackrefExact(s, i, n, p) ==
    /\ p + n <= Len(s)
    /\ \A k \in 1..n : s[p + k] = s[i + k - 1]

\* the backreference \1 under re.IGNORECASE: s[p+1..p+n] equals the group
\* s[i..i+n-1] character by character up to case
BackrefAt(s, i, n, p) ==
    /\ p + n <= Len(s)
    /\ \A k \in 1..n : Fold(s[p + k]) = Fold(s[i + k - 1])

\* the ends m of one repetition (\s+\1) that starts after position p, the group
\* being s[i..e]
RepEnds(s, i, e, p) ==
    { f + (e - i + 1) : f \in { g \in (p + 1)..Len(s) :
                                  /\ IsSpaceRun(s, p + 1, g)
                                  /\ BackrefAt(s, i, e - i + 1, g) } }

\* the matches <<e, m>> of \b(\w+)\s+\1\b that start at position i: group 1 is
\* s[i..e] and the match is s[i..m]
StutterMatches(s, i) ==
    IF ~WordBoundary(s, i - 1) THEN {}
    ELSE UNION { { <<e, m>> : m \in { x \in RepEnds(s, i, e, e) : WordBoundary(s, x) } } :
                 e \in { g \in i..Len(s) : IsWordRun(s, i, g) } }

\* the match the backtracking engine reports among ms: the longest group first
\* (\w+ is greedy), then the longest whitespace run (\s+ is greedy)
Preferred(ms) ==
    LET e == MaxOf({ em[1] : em \in ms })
    IN  <<e, MaxOf({ em[2] : em \in { x \in ms : x[1] = e } })>>

\* stutter_pattern.sub(r'\1', s) applied to s[pos..]: leftmost matches, not
\* overlapping, each replaced by its group 1
RECURSIVE StutterSubFrom(_, _)
StutterSubFrom(s, pos) ==
    LET starts == { i \in pos..Len(s) : StutterMatches(s, i) # {} }
    IN  IF starts = {} THEN Slice(s, pos, Len(s))
        ELSE LET i == MinOf(starts)
                 m == Preferred(StutterMatches(s, i))
             IN  Slice(s, pos, m[1]) \o StutterSubFrom(s, m[2] + 1)

\* one pass of the loop body: text = stutter_pattern.sub(r'\1', text)
StutterSub(s) == StutterSubFrom(s, 1)

\* the pairs <<m, n>>: n repetitions of (\s+\1) after position p end at m
RECURSIVE RepChain(_, _, _, _, _)
RepChain(s, i, e, p, n) ==
    {<<p, n>>} \cup UNION { RepChain(s, i, e, m, n + 1) : m \in RepEnds(s, i, e, p) }

\* the matches <<e, m>> of \b(\w+)(\s+\1){2,}\b that start at position i
TripleMatches(s, i) ==
    IF ~WordBoundary(s, i - 1) THEN {}
    ELSE UNION { { <<e, mn[1]>> : mn \in { x \in RepChain(s, i, e, e, 0) :
                                              x[2] >= 2 /\ WordBoundary(s, x[1]) } } :
                 e \in { g \in i..Len(s) : IsWordRun(s, i, g) } }

\* triple_pattern.sub(r'\1', s) applied to s[pos..]
RECURSIVE TripleSubFrom(_, _)
TripleSubFrom(s, pos) ==
    LET starts == { i \in pos..Len(s) : TripleMatches(s, i) # {} }
    IN  IF starts = {} THEN Slice(s, pos, Len(s))
        ELSE LET i == MinOf(starts)
                 m == Preferred(TripleMatches(s, i))
             IN  Slice(s, pos, m[1]) \o TripleSubFrom(s, m[2] + 1)

\* text = triple_pattern.sub(r'\1', text)
TripleSub(s) == TripleSubFrom(s, 1)

\* an `if` in the place of the `while`: the body runs once
StutterLoopOnce(t, prev) == prev = None

\* a loop condition that never ends the loop
StutterLoopAlways(t, prev) == TRUE

\* the loop condition `while text != prev_text`
StutterLoopContinues(t, prev) == t # prev

\* ------------------------------------------------------------------- state
VARIABLES
    entry,                 \* the function the run enters: "main" or a function's name
    pc,                    \* the statement the run is at
    filename, raw_text,    \* main: os.environ['filename'], sys.stdin.read()
    is_vtt,                \* main: the result of the format detection
    captions, ci,          \* process_vtt: the caption blocks, the loop's position
    processed_lines,       \* process_vtt: the lines appended so far
    similarity_threshold,  \* remove_line_stuttering: <<numerator, denominator>>
    lines, li, deduped,    \* remove_line_stuttering: its lines, position, kept lines
    text, prev_text,       \* remove_word_stuttering: its two locals
    processed,             \* clean_transcript: its local
    arg,                   \* the argument a function was entered with
    returned,              \* the values the entered function has returned, in order
    stdout,                \* what main has printed
    start_timestamp,       \* vttclean.process_vtt: the start time of the cue at hand
    subtitle_lines,        \* vttclean.process_vtt: the text lines of the cue at hand
    processed_captions     \* vttclean.process_vtt: the captions appended so far

\* the locals of vttclean.process_vtt besides lines and its index
vttcleanVars == <<start_timestamp, subtitle_lines, processed_captions>>

vars == <<entry, pc, filename, raw_text, is_vtt, captions, ci, processed_lines,
          similarity_threshold, lines, li, deduped, text, prev_text, processed,
          arg, returned, stdout, start_timestamp, subtitle_lines,
          processed_captions>>

\* similarity_threshold=0.8, the default of remove_line_stuttering
DefaultThreshold == <<8, 10>>

\* the locals of main, clean_transcript and process_vtt before they are assigned
MainIdle ==
    /\ filename = <<>> /\ raw_text = <<>> /\ is_vtt = FALSE
    /\ captions = <<>> /\ ci = 0 /\ processed_lines = <<>>
    /\ processed = None /\ stdout = None

\* the locals of remove_line_stuttering before they are assigned
LineIdle ==
    /\ similarity_threshold = DefaultThreshold
    /\ lines = <<>> /\ li = 0 /\ deduped = <<>>

\* the locals of remove_word_stuttering before they are assigned
WordIdle == text = None /\ prev_text = None

\* the locals of vttclean.process_vtt before they are assigned
VttcleanIdle ==
    start_timestamp = None /\ subtitle_lines = <<>> /\ processed_captions = <<>>

\* ------------------------------------------------- remove_word_stuttering
\* the pieces the enumerated inputs of remove_word_stuttering are made of
WordPieces ==
    { <<"a">>, <<"A">>, <<"b">>, <<" ">>, <<" ", "a">>, <<" ", "A">>, <<".">>,
      SPEAKER_TURN }

\* the inputs the specification's examples name
WordSamples ==
    { <<"h","e","l","l","o"," ","h","e","l","l","o"," ","w","o","r","l","d">>,
      <<"a"," ","a"," ","a"," ","a">>,
      <<"T","h","e"," ","t","h","e"," "," ","T","H","E"," ","e","n","d">>,
      SPEAKER_TURN \o <<" ">> \o SPEAKER_TURN \o <<" ", "h", "i", " ", "H", "i">> }

WordInputs ==
    WordSamples \cup { Concat(ps) : ps \in SeqsUpTo(WordPieces, MaxWordPieces) }

\* remove_word_stuttering(arg) is entered
InitWord ==
    /\ entry = "remove_word_stuttering"
    /\ arg \in WordInputs
    /\ text = arg /\ prev_text = None
    /\ pc = "word_loop"
    /\ returned = <<>>
    /\ MainIdle /\ LineIdle /\ VttcleanIdle

\* one pass of `while text != prev_text`
WordLoop ==
    /\ pc = "word_loop"
    /\ StutterLoopContinues(text, prev_text)
    /\ prev_text' = text
    /\ text' = StutterSub(text)
    /\ UNCHANGED <<entry, pc, filename, raw_text, is_vtt, captions, ci,
                   processed_lines, similarity_threshold, lines, li, deduped,
                   processed, arg, returned, stdout>>
    /\ UNCHANGED vttcleanVars

\* the loop ends and the triple pattern is applied once
WordTriple ==
    /\ pc = "word_loop"
    /\ ~StutterLoopContinues(text, prev_text)
    /\ text' = TripleSub(text)
    /\ pc' = "word_return"
    /\ UNCHANGED <<entry, filename, raw_text, is_vtt, captions, ci,
                   processed_lines, similarity_threshold, lines, li, deduped,
                   prev_text, processed, arg, returned, stdout>>
    /\ UNCHANGED vttcleanVars

\* `return text`: to clean_transcript when main runs, else to the caller
WordReturn ==
    /\ pc = "word_return"
    /\ IF entry = "main"
       THEN /\ processed' = text
            /\ pc' = "print"
            /\ UNCHANGED returned
       ELSE /\ returned' = Append(returned, text)
            /\ pc' = "word_done"
            /\ UNCHANGED processed
    /\ UNCHANGED <<entry, filename, raw_text, is_vtt, captions, ci,
                   processed_lines, similarity_threshold, lines, li, deduped,
                   text, prev_text, arg, stdout>>
    /\ UNCHANGED vttcleanVars

\* the caller applies remove_word_stuttering to the value it returned
WordAgain ==
    /\ pc = "word_done"
    /\ Len(returned) = 1
    /\ text' = returned[1]
    /\ prev_text' = None
    /\ pc' = "word_loop"
    /\ UNCHANGED <<entry, filename, raw_text, is_vtt, captions, ci,
                   processed_lines, similarity_threshold, lines, li, deduped,
                   processed, arg, returned, stdout>>
    /\ UNCHANGED vttcleanVars

NextWord == WordLoop \/ WordTriple \/ WordReturn \/ WordAgain

SpecWord == InitWord /\ [][NextWord]_vars

\* ------------------------------------------- properties of remove_word_stuttering
\* the maximal runs of \w characters and of other characters of s, in order
RECURSIVE Segments(_)
Segments(s) ==
    IF s = <<>> THEN <<>>
    ELSE LET w == IsWordChar(s[1])
             n == MaxOf({ k \in 1..Len(s) : \A j \in 1..k : IsWordChar(s[j]) = w })
         IN  <<SubSeq(s, 1, n)>> \o Segments(Slice(s, n + 1, Len(s)))

IsWordToken(seg) == seg # <<>> /\ IsWordChar(seg[1])

IsSpaceGap(seg) == seg # <<>> /\ \A k \in 1..Len(seg) : IsSpace(seg[k])

\* whether segs begins with two word tokens equal up to case with only
\* whitespace between them
RepeatsAtHead(segs) ==
    /\ Len(segs) >= 3
    /\ IsWordToken(segs[1]) /\ IsSpaceGap(segs[2]) /\ IsWordToken(segs[3])
    /\ Lower(segs[1]) = Lower(segs[3])

\* every run of repeated word tokens reduced to its first token
RECURSIVE CollapseRuns(_)
CollapseRuns(segs) ==
    IF segs = <<>> THEN <<>>
    ELSE IF RepeatsAtHead(segs)
         THEN CollapseRuns(<<segs[1]>> \o Slice(segs, 4, Len(segs)))
         ELSE <<segs[1]>> \o CollapseRuns(Tail(segs))

\* whether some word token of s is followed, after whitespace only, by an equal one
HasAdjacentRepeat(s) ==
    LET segs == Segments(s)
    IN  \E k \in 1..Len(segs) : RepeatsAtHead(Slice(segs, k, Len(segs)))

HelloHelloWorld ==
    <<"h","e","l","l","o"," ","h","e","l","l","o"," ","w","o","r","l","d">>

HelloWorld == <<"h","e","l","l","o"," ","w","o","r","l","d">>

\* C6: remove_word_stuttering is idempotent: applied to the value it returned,
\* it returns that value again.
C6_WordIdempotent == Len(returned) = 2 => returned[2] = returned[1]

\* a run in which the first call removed something and the second call returned
C6_Witness ==
    /\ entry = "remove_word_stuttering"
    /\ Len(returned) = 2
    /\ returned[1] # arg
    /\ HasAdjacentRepeat(arg)

\* C7: remove_word_stuttering replaces every maximal run of whitespace-separated
\* word tokens equal up to case by the run's first token and leaves every other
\* token, every other separator and the order as they were; `hello hello world`
\* gives `hello world`, `a a a a` gives `a`, and no repeated pair is left.
C7_WordRunsCollapsed ==
    (entry = "remove_word_stuttering" /\ Len(returned) >= 1) =>
        /\ returned[1] = Concat(CollapseRuns(Segments(arg)))
        /\ ~HasAdjacentRepeat(returned[1])
        /\ (arg = HelloHelloWorld => returned[1] = HelloWorld)
        /\ (arg = <<"a"," ","a"," ","a"," ","a">> => returned[1] = <<"a">>)

\* the run on `The the  THE end`: three tokens of different case become the first
C7_Witness ==
    /\ arg = <<"T","h","e"," ","t","h","e"," "," ","T","H","E"," ","e","n","d">>
    /\ Len(returned) >= 1
    /\ returned[1] = <<"T","h","e"," ","e","n","d">>

\* ---------------------------------------------------------------- clean_text
\* the ends j of the matches of <[^>]+> that start at position i
TagMatches(s, i) ==
    IF s[i] # "<" THEN {}
    ELSE { j \in (i + 2)..Len(s) :
              /\ s[j] = ">"
              /\ \A k \in (i + 1)..(j - 1) : s[k] # ">" }

\* re.sub(r'<[^>]+>', '', s) applied to s[pos..]
RECURSIVE TagSubFrom(_, _)
TagSubFrom(s, pos) ==
    LET starts == { i \in pos..Len(s) : TagMatches(s, i) # {} }
    IN  IF starts = {} THEN Slice(s, pos, Len(s))
        ELSE LET i == MinOf(starts)
             IN  Slice(s, pos, i - 1) \o TagSubFrom(s, MaxOf(TagMatches(s, i)) + 1)

TagSub(s) == TagSubFrom(s, 1)

\* a pattern element that stands for the class \d
D == "\\d"

\* whether s[p..] begins with the pattern tpl: D matches one digit, any other
\* element matches itself
MatchesTemplate(s, p, tpl) ==
    /\ p >= 1
    /\ p + Len(tpl) - 1 <= Len(s)
    /\ \A k \in 1..Len(tpl) :
          IF tpl[k] = D THEN IsDigit(s[p + k - 1]) ELSE s[p + k - 1] = tpl[k]

\* \d{2}:\d{2}:\d{2}
ClockTemplate == <<D, D, ":", D, D, ":", D, D>>

\* \d{2}:\d{2}:\d{2}\.\d{3}
MillisTemplate == ClockTemplate \o <<".", D, D, D>>

\* \[\d{2}:\d{2}:\d{2}\.\d{3} --> \d{2}:\d{2}:\d{2}\.\d{3}\]
BracketedRangeTemplate ==
    <<"[">> \o MillisTemplate \o <<" ", "-", "-", ">", " ">> \o MillisTemplate \o <<"]">>

\* the positions f at which group 1 of
\* ^\w+:\s+(\[\d{2}:\d{2}:\d{2}\.\d{3} --> \d{2}:\d{2}:\d{2}\.\d{3}\]) begins
SpeakerPrefixMatches(s) ==
    UNION { { f \in (e + 3)..Len(s) :
                 /\ IsSpaceRun(s, e + 2, f - 1)
                 /\ MatchesTemplate(s, f, BracketedRangeTemplate) } :
            e \in { g \in 1..(Len(s) - 1) : IsWordRun(s, 1, g) /\ s[g + 1] = ":" } }

\* re.sub(r'^\w+:\s+(\[...\])', r'\1', s): the label before the range is dropped
SpeakerPrefixSub(s) ==
    LET ms == SpeakerPrefixMatches(s)
    IN  IF ms = {} THEN s ELSE Slice(s, MaxOf(ms), Len(s))

\* a substitution that deletes the whitespace runs (re.sub(r'\s+', '', s))
SpaceSubNone(s) == SelectSeq(s, LAMBDA c : ~IsSpace(c))

\* re.sub(r'\s+', ' ', s) applied to s[pos..]: each whitespace run becomes a space
RECURSIVE SpaceSubFrom(_, _)
SpaceSubFrom(s, pos) ==
    LET starts == { i \in pos..Len(s) : IsSpace(s[i]) }
    IN  IF starts = {} THEN Slice(s, pos, Len(s))
        ELSE LET i == MinOf(starts)
                 j == MaxOf({ g \in i..Len(s) : IsSpaceRun(s, i, g) })
             IN  Slice(s, pos, i - 1) \o <<" ">> \o SpaceSubFrom(s, j + 1)

SpaceSub(s) == SpaceSubFrom(s, 1)

\* the ends j of the matches of &[a-zA-Z]+; that start at position i
EntityMatches(s, i) ==
    IF s[i] # "&" THEN {}
    ELSE { j \in (i + 2)..Len(s) :
              /\ s[j] = ";"
              /\ \A k \in (i + 1)..(j - 1) : IsAlpha(s[k]) }

\* re.sub(r'&[a-zA-Z]+;', ' ', s) applied to s[pos..]
RECURSIVE EntitySubFrom(_, _)
EntitySubFrom(s, pos) ==
    LET starts == { i \in pos..Len(s) : EntityMatches(s, i) # {} }
    IN  IF starts = {} THEN Slice(s, pos, Len(s))
        ELSE LET i == MinOf(starts)
             IN  Slice(s, pos, i - 1) \o <<" ">>
                    \o EntitySubFrom(s, MaxOf(EntityMatches(s, i)) + 1)

EntitySub(s) == EntitySubFrom(s, 1)

\* clean_text(text): the six statements of its body, in order
clean_text(t) == Strip(EntitySub(SpaceSub(LStrip(SpeakerPrefixSub(TagSub(t))))))

\* [00:00:01.000 --> 00:00:02.000]
SampleRange ==
    <<"[","0","0",":","0","0",":","0","1",".","0","0","0"," ","-","-",">"," ",
      "0","0",":","0","0",":","0","2",".","0","0","0","]">>

\* the pieces the enumerated inputs of clean_text are made of
CleanPieces ==
    { <<"a">>, <<" ">>, <<"\n">>, <<"<">>, <<">">>, <<"&">>, <<";">>, SPEAKER_TURN }

\* inputs with a speaker label, with entities next to spaces, with markup
CleanSamples ==
    { <<"B","o","b",":"," ">> \o SampleRange \o <<" ","h","i">>,
      <<"B","o","b",":"," ">> \o SampleRange,
      <<"B","o","b",":"," ","h","i">>,
      <<"a"," ","&","q","u","o","t",";"," ","b">>,
      <<"a","&","a","m","p",";","b">>,
      <<"<","i",">","h","i","<","/","i",">"," ">> \o SPEAKER_TURN,
      <<"<","v"," ">> \o SPEAKER_TURN \o <<">","h","i">> }

CleanInputs ==
    CleanSamples \cup { Concat(ps) : ps \in SeqsUpTo(CleanPieces, MaxCleanPieces) }

\* clean_text(arg) is entered
InitClean ==
    /\ entry = "clean_text"
    /\ arg \in CleanInputs
    /\ pc = "clean_text"
    /\ returned = <<>>
    /\ MainIdle /\ LineIdle /\ WordIdle /\ VttcleanIdle

\* the body of clean_text runs and returns
CleanTextCall ==
    /\ pc = "clean_text"
    /\ returned' = Append(returned, clean_text(arg))
    /\ pc' = "clean_done"
    /\ UNCHANGED <<entry, filename, raw_text, is_vtt, captions, ci,
                   processed_lines, similarity_threshold, lines, li, deduped,
                   text, prev_text, processed, arg, stdout>>
    /\ UNCHANGED vttcleanVars

NextClean == CleanTextCall

SpecClean == InitClean /\ [][NextClean]_vars

\* ------------------------------------------------------ properties of clean_text
\* no angle-bracket span <...> in x
NoTags(x) == \A i \in 1..Len(x) : TagMatches(x, i) = {}

\* the only whitespace of x is single spaces, none of them at either end
SingleSpaced(x) ==
    /\ \A i \in 1..Len(x) : IsSpace(x[i]) => x[i] = " "
    /\ \A i \in 1..(Len(x) - 1) : ~(x[i] = " " /\ x[i + 1] = " ")
    /\ Strip(x) = x

\* no token &letters; in x
NoEntities(x) == \A i \in 1..Len(x) : EntityMatches(x, i) = {}

\* x does not begin with a `word:` label followed by a bracketed timestamp range
NoSpeakerPrefix(x) == SpeakerPrefixMatches(x) = {}

\* C8 as stated: text without tags, single-spaced and trimmed is returned as it is.
C8_Original ==
    (entry = "clean_text" /\ returned # <<>> /\ NoTags(arg) /\ SingleSpaced(arg))
        => returned[1] = arg

\* C8: clean_text returns unchanged every text that has no angle-bracket span, no
\* &letters; token, no leading `word:` label before a bracketed timestamp range,
\* only single spaces as whitespace and no whitespace at either end.
C8_CleanTextFixesCleanText ==
    (/\ entry = "clean_text" /\ returned # <<>>
     /\ NoTags(arg) /\ SingleSpaced(arg)
     /\ NoEntities(arg) /\ NoSpeakerPrefix(arg))
        => returned[1] = arg

\* clean text with a space, an ampersand and a semicolon in it has been returned
C8_Witness ==
    /\ entry = "clean_text" /\ returned # <<>>
    /\ NoTags(arg) /\ SingleSpaced(arg) /\ NoEntities(arg) /\ NoSpeakerPrefix(arg)
    /\ Contains(arg, <<"a", " ", "&">>) /\ Contains(arg, <<";">>)
    /\ returned[1] = arg

\* the number of occurrences of the turn marker in x
MarkerCount(x) == Cardinality({ i \in 1..Len(x) : OccursAt(x, SPEAKER_TURN, i) })

\* C9: every turn marker of the input of clean_text and of remove_word_stuttering
\* is still in the output, unaltered.
C9_MarkersSurvive ==
    /\ (entry = "clean_text" /\ returned # <<>>)
          => MarkerCount(returned[1]) = MarkerCount(arg)
    /\ (entry = "remove_word_stuttering" /\ returned # <<>>)
          => MarkerCount(returned[1]) = MarkerCount(arg)

\* -------------------------------------------------- difflib.SequenceMatcher
\* the length of the longest common prefix of a[i..ahi] and b[j..bhi]
RECURSIVE MatchLen(_, _, _, _, _, _)
MatchLen(a, b, i, j, ahi, bhi) ==
    IF i <= ahi /\ j <= bhi /\ a[i] = b[j]
    THEN 1 + MatchLen(a, b, i + 1, j + 1, ahi, bhi)
    ELSE 0

\* SequenceMatcher.find_longest_match on a[alo..ahi] and b[blo..bhi] (no junk:
\* isjunk is None and the automatic junk heuristic needs 200 elements): the
\* block <<i, j, k>> of greatest size k, of those the one that starts earliest
\* in a, of those the one that starts earliest in b
LongestMatch(a, b, alo, ahi, blo, bhi) ==
    LET k == MaxOf({0} \cup { MatchLen(a, b, i, j, ahi, bhi) :
                                i \in alo..ahi, j \in blo..bhi })
    IN  IF k = 0 THEN <<alo, blo, 0>>
        ELSE LET i == MinOf({ x \in alo..ahi :
                                \E y \in blo..bhi : MatchLen(a, b, x, y, ahi, bhi) = k })
                 j == MinOf({ y \in blo..bhi : MatchLen(a, b, i, y, ahi, bhi) = k })
             IN  <<i, j, k>>

\* the sum of the sizes of SequenceMatcher.get_matching_blocks: the longest
\* block, then the same to the left and to the right of it
RECURSIVE MatchingChars(_, _, _, _, _, _)
MatchingChars(a, b, alo, ahi, blo, bhi) ==
    IF alo > ahi \/ blo > bhi THEN 0
    ELSE LET m == LongestMatch(a, b, alo, ahi, blo, bhi)
         IN  IF m[3] = 0 THEN 0
             ELSE m[3] + MatchingChars(a, b, alo, m[1] - 1, blo, m[2] - 1)
                       + MatchingChars(a, b, m[1] + m[3], ahi, m[2] + m[3], bhi)

\* SequenceMatcher(None, a, b).ratio() as the fraction <<numerator, denominator>>:
\* 2.0 * matches / (len(a) + len(b)), and 1.0 when both are empty
Ratio(a, b) ==
    IF Len(a) + Len(b) = 0 THEN <<1, 1>>
    ELSE <<2 * MatchingChars(a, b, 1, Len(a), 1, Len(b)), Len(a) + Len(b)>>

\* the comparison r >= t of two fractions
AtLeast(r, t) == r[1] * t[2] >= t[1] * r[2]

\* ------------------------------------------------- remove_line_stuttering
\* the characters at which str.splitlines() ends a line
IsLineBreak(c) == c \in {"\n", "\r", "\f"}

\* a split at \n that gives the lines last to first
RECURSIVE SplitReversed(_)
SplitReversed(s) ==
    LET brk == { i \in 1..Len(s) : s[i] = "\n" }
    IN  IF brk = {} THEN <<s>>
        ELSE SplitReversed(Slice(s, MinOf(brk) + 1, Len(s)))
                \o <<Slice(s, 1, MinOf(brk) - 1)>>

\* str.splitlines(): the lines of s without their line ends; \r\n is one line
\* end, and a line end at the end of s starts no further line
RECURSIVE SplitLines(_)
SplitLines(s) ==
    IF s = <<>> THEN <<>>
    ELSE LET brk == { i \in 1..Len(s) : IsLineBreak(s[i]) }
         IN  IF brk = {} THEN <<s>>
             ELSE LET p == MinOf(brk)
                      q == IF s[p] = "\r" /\ p < Len(s) /\ s[p + 1] = "\n"
                           THEN p + 1 ELSE p
                  IN  <<Slice(s, 1, p - 1)>> \o SplitLines(Slice(s, q + 1, Len(s)))

\* a baseline that is the line seen last, kept or not
PrevSeen(kept, all, i) == all[i - 1]

\* prev_line = deduped[-1]: the baseline is the line kept last
PrevLine(kept, all, i) == kept[Len(kept)]

\* a test for the line being the marker and nothing else
IsTurnMarker(line) == line = SPEAKER_TURN

\* '[SPEAKER_TURN]' in line
HasTurnMarker(line) == Contains(line, SPEAKER_TURN)

\* a comparison of the lines as they are, not stripped
IsNearDuplicateRaw(prev, line, t) == AtLeast(Ratio(prev, line), t)

\* difflib.SequenceMatcher(None, prev_line.strip(), line.strip()).ratio()
\*     >= similarity_threshold
IsNearDuplicate(prev, line, t) == AtLeast(Ratio(Strip(prev), Strip(line)), t)

\* the lines the enumerated transcripts are made of
LineChoices ==
    { <<>>, <<"a","b">>, <<"a","b","c">>, <<"a","b","c","d">>, <<" ","a","b"," ">>,
      SPEAKER_TURN, SPEAKER_TURN \o <<" ","a","b">>,
      <<"t","h","e"," ","q","u","i","c","k"," ","f","o","x">>,
      <<"t","h","e"," ","q","u","i","c","k"," ","f","o","x",".">> }

\* the thresholds the enumerated calls pass: 0.5, the default 0.8, 0.99
Thresholds == { <<1, 2>>, DefaultThreshold, <<99, 100>> }

LineInputs == { Join(<<"\n">>, ls) : ls \in SeqsUpTo(LineChoices, MaxLines) }

\* remove_line_stuttering(arg, similarity_threshold) is entered
InitLine ==
    /\ entry = "remove_line_stuttering"
    /\ arg \in LineInputs
    /\ similarity_threshold \in Thresholds
    /\ lines = <<>> /\ li = 0 /\ deduped = <<>>
    /\ pc = "line_split"
    /\ returned = <<>>
    /\ MainIdle /\ WordIdle /\ VttcleanIdle

\* lines = transcript.splitlines(); deduped = []
LineSplit ==
    /\ pc = "line_split"
    /\ lines' = SplitLines(IF entry = "main" THEN processed ELSE arg)
    /\ li' = 1
    /\ deduped' = <<>>
    /\ pc' = "line_loop"
    /\ UNCHANGED <<entry, filename, raw_text, is_vtt, captions, ci,
                   processed_lines, similarity_threshold, text, prev_text,
                   processed, arg, returned, stdout>>
    /\ UNCHANGED vttcleanVars

\* one iteration of `for line in lines`
LineStep ==
    /\ pc = "line_loop"
    /\ li <= Len(lines)
    /\ LET line == lines[li]
       IN  deduped' =
              IF deduped = <<>> THEN Append(deduped, line)
              ELSE IF HasTurnMarker(line) THEN Append(deduped, line)
              ELSE IF IsNearDuplicate(PrevLine(deduped, lines, li), line,
                                      similarity_threshold)
                   THEN deduped
                   ELSE Append(deduped, line)
    /\ li' = li + 1
    /\ UNCHANGED <<entry, pc, filename, raw_text, is_vtt, captions, ci,
                   processed_lines, similarity_threshold, lines, text, prev_text,
                   processed, arg, returned, stdout>>
    /\ UNCHANGED vttcleanVars

\* return "\n".join(deduped): to clean_transcript when main runs, which calls
\* remove_word_stuttering next, else to the caller
LineReturn ==
    /\ pc = "line_loop"
    /\ li > Len(lines)
    /\ IF entry = "main"
       THEN /\ processed' = Join(<<"\n">>, deduped)
            /\ text' = Join(<<"\n">>, deduped)
            /\ prev_text' = None
            /\ pc' = "word_loop"
            /\ UNCHANGED returned
       ELSE /\ returned' = Append(returned, Join(<<"\n">>, deduped))
            /\ pc' = "line_done"
            /\ UNCHANGED <<processed, text, prev_text>>
    /\ UNCHANGED <<entry, filename, raw_text, is_vtt, captions, ci,
                   processed_lines, similarity_threshold, lines, li, deduped,
                   arg, stdout>>
    /\ UNCHANGED vttcleanVars

NextLine == LineSplit \/ LineStep \/ LineReturn

SpecLine == InitLine /\ [][NextLine]_vars

\* --------------------------------------- properties of remove_line_stuttering
QuickFox == <<"t","h","e"," ","q","u","i","c","k"," ","f","o","x">>

QuickFoxDot == <<"t","h","e"," ","q","u","i","c","k"," ","f","o","x",".">>

\* what one iteration of the loop did with the line it looked at
LineKept == deduped' = Append(deduped, lines[li])

LineDropped == deduped' = deduped

\* 2*matched/(len(prev.strip())+len(line.strip())) >= t for the line kept last
\* and the line looked at, when the two are not both empty
SimilarToLastKept ==
    LET prev    == Strip(deduped[Len(deduped)])
        line    == Strip(lines[li])
        matched == MatchingChars(prev, line, 1, Len(prev), 1, Len(line))
        total   == Len(prev) + Len(line)
    IN  IF total = 0 THEN similarity_threshold[1] <= similarity_threshold[2]
        ELSE 2 * matched * similarity_threshold[2] >= similarity_threshold[1] * total

\* the quick-fox example: the second line is dropped at 0.8 and kept at 0.99
QuickFoxExample ==
    (/\ entry = "remove_line_stuttering" /\ returned # <<>>
     /\ arg = QuickFox \o <<"\n">> \o QuickFoxDot)
        => /\ similarity_threshold = <<8, 10>> => returned[1] = QuickFox
           /\ similarity_threshold = <<99, 100>> => returned[1] = arg

\* C4: remove_line_stuttering keeps the first line; a later line without a turn
\* marker is dropped exactly when its similarity ratio to the line kept last
\* reaches the threshold, and is otherwise kept (and so is the next baseline);
\* `the quick fox.` after `the quick fox` is dropped at 0.8 and kept at 0.99.
C4_ComparesWithLastKept ==
    [][ /\ (pc = "line_loop" /\ li <= Len(lines)) =>
              /\ LineKept \/ LineDropped
              /\ deduped = <<>> => LineKept
              /\ (deduped # <<>> /\ ~Contains(lines[li], SPEAKER_TURN)) =>
                    (LineDropped <=> SimilarToLastKept)
        /\ QuickFoxExample' ]_vars

\* `ab`, `abc`, `abcd` at 0.8: `abc` was dropped, and `abcd`, which is nearer than
\* 0.8 to `abc` but not to `ab`, was kept
C4_Witness ==
    /\ entry = "remove_line_stuttering"
    /\ similarity_threshold = <<8, 10>>
    /\ lines = << <<"a","b">>, <<"a","b","c">>, <<"a","b","c","d">> >>
    /\ returned = << <<"a","b","\n","a","b","c","d">> >>

\* the lines of ls that contain the turn marker, in order
MarkerLines(ls) == SelectSeq(ls, LAMBDA l : Contains(l, SPEAKER_TURN))

\* C5: every line with a turn marker that the loop has looked at is among the kept
\* lines, whatever the threshold and the lines before it.
C5_MarkerLinesKept ==
    (entry = "remove_line_stuttering" /\ pc \in {"line_loop", "line_done"}) =>
        /\ MarkerLines(deduped) = MarkerLines(Slice(lines, 1, li - 1))
        /\ pc = "line_done" =>
              MarkerLines(SplitLines(returned[1])) = MarkerLines(SplitLines(arg))

\* a marker line equal to the line kept before it has been kept
C5_Witness ==
    /\ entry = "remove_line_stuttering"
    /\ pc = "line_done"
    /\ Len(deduped) >= 2
    /\ \E k \in 1..(Len(deduped) - 1) :
          /\ deduped[k] = deduped[k + 1]
          /\ Contains(deduped[k], SPEAKER_TURN)
          /\ deduped[k] # SPEAKER_TURN

\* ---------------------------------------------------------------- process_vtt
NL == "\n"

WEBVTT == <<"W","E","B","V","T","T">>

\* the positions p >= from at which s has two newlines in a row (\n\n)
BlankLineAt(s, from) ==
    { p \in from..(Len(s) - 1) : s[p] = NL /\ s[p + 1] = NL }

\* re.sub(r'^WEBVTT.*?\n\n', '', s, flags=re.DOTALL | re.IGNORECASE): a text that
\* begins with WEBVTT in any case loses everything up to its first \n\n
HeaderSub(s) ==
    LET ends == BlankLineAt(s, Len(WEBVTT) + 1)
    IN  IF StartsWith(Lower(s), Lower(WEBVTT)) /\ ends # {}
        THEN Slice(s, MinOf(ends) + 2, Len(s))
        ELSE s

\* re.sub(word + r'.*?\n\n', '', s, flags=re.DOTALL) applied to s[pos..]: every
\* occurrence of word is removed together with what follows up to the next \n\n
RECURSIVE BlockSubFrom(_, _, _)
BlockSubFrom(s, word, pos) ==
    LET starts == { i \in pos..Len(s) :
                      OccursAt(s, word, i) /\ BlankLineAt(s, i + Len(word)) # {} }
    IN  IF starts = {} THEN Slice(s, pos, Len(s))
        ELSE LET i == MinOf(starts)
             IN  Slice(s, pos, i - 1)
                    \o BlockSubFrom(s, word, MinOf(BlankLineAt(s, i + Len(word))) + 2)

\* re.sub(r'NOTE.*?\n\n', '', s, flags=re.DOTALL)
NoteSub(s) == BlockSubFrom(s, <<"N","O","T","E">>, 1)

\* re.sub(r'STYLE.*?\n\n', '', s, flags=re.DOTALL)
StyleSub(s) == BlockSubFrom(s, <<"S","T","Y","L","E">>, 1)

\* re.split(r'\n\n+', s): the texts between the runs of two or more newlines
RECURSIVE SplitCaptions(_)
SplitCaptions(s) ==
    LET seps == BlankLineAt(s, 1)
    IN  IF seps = {} THEN <<s>>
        ELSE LET p == MinOf(seps)
                 q == MaxOf({ g \in p..Len(s) : \A k \in p..g : s[k] = NL })
             IN  <<Slice(s, 1, p - 1)>> \o SplitCaptions(Slice(s, q + 1, Len(s)))

\* s.split(c): the texts between the occurrences of the character c
RECURSIVE SplitOn(_, _)
SplitOn(s, c) ==
    LET at == { i \in 1..Len(s) : s[i] = c }
    IN  IF at = {} THEN <<s>>
        ELSE <<Slice(s, 1, MinOf(at) - 1)>> \o SplitOn(Slice(s, MinOf(at) + 1, Len(s)), c)

\* a strip that removes nothing
StripNone(s, chars) == s

\* s.strip(chars): both ends freed of the characters in chars
RECURSIVE StripChars(_, _)
StripChars(s, chars) ==
    IF s # <<>> /\ s[1] \in chars THEN StripChars(Tail(s), chars)
    ELSE IF s # <<>> /\ s[Len(s)] \in chars
         THEN StripChars(SubSeq(s, 1, Len(s) - 1), chars)
         ELSE s

Arrow == <<"-", "-", ">">>

\* the index of the first line that contains '-->', 0 when there is none
TimestampIndex(ls) ==
    LET at == { i \in 1..Len(ls) : Contains(ls[i], Arrow) }
    IN  IF at = {} THEN 0 ELSE MinOf(at)

\* a test of the timestamp line that asks for the arrow only
StartLoose(tl) == Contains(tl, Arrow)

\* whether re.match(r'(\d{2}:\d{2}:\d{2})\.\d{3}\s*-->', tl) matches
StartMatches(tl) ==
    /\ MatchesTemplate(tl, 1, MillisTemplate)
    /\ \E f \in Len(MillisTemplate)..Len(tl) :
          /\ \A k \in (Len(MillisTemplate) + 1)..f : IsSpace(tl[k])
          /\ OccursAt(tl, Arrow, f + 1)

\* a start time that keeps the milliseconds: HH:MM:SS.mmm
MillisStart(tl) == Slice(tl, 1, Len(MillisTemplate))

\* match.group(1) of a timestamp line that matched: (\d{2}:\d{2}:\d{2})
Group1(tl) == Slice(tl, 1, Len(ClockTemplate))

\* the lines one iteration of `for caption in captions` appends: none when the
\* block has no line with '-->', when the start time does not match, or when the
\* cleaned text is empty
CaptionLines(caption) ==
    LET ls == SplitOn(Strip(caption), NL)
        i  == TimestampIndex(ls)
        timestamp_line == StripChars(ls[i], {"[", "]"})
        text_lines     == Slice(ls, i + 1, Len(ls))
        start_ts       == Group1(timestamp_line)
        cleaned        == clean_text(Strip(Join(<<" ">>, text_lines)))
    IN  IF i = 0 THEN <<>>
        ELSE IF ~StartMatches(timestamp_line) THEN <<>>
        ELSE IF cleaned = <<>> THEN <<>>
        ELSE << start_ts \o <<" ">> \o cleaned >>

\* ----------------------------------------------------------------------- main
\* '.vtt'
VttExtension == <<".", "v", "t", "t">>

\* '[00:00:'
ZeroStamp == <<"[", "0", "0", ":", "0", "0", ":">>

\* filename.lower().endswith('.vtt') or raw_text.startswith('WEBVTT')
\*     or '[00:00:' in raw_text
DetectVtt(name, raw) ==
    \/ EndsWith(Lower(name), VttExtension)
    \/ StartsWith(raw, WEBVTT)
    \/ Contains(raw, ZeroStamp)

\* content.strip() after the three substitutions, split into caption blocks
CaptionBlocks(raw) == SplitCaptions(Strip(StyleSub(NoteSub(HeaderSub(raw)))))

\* 00:00:00.000 --> 00:00:02.000 / Hi hi there
CueA ==
    <<"0","0",":","0","0",":","0","0",".","0","0","0"," ","-","-",">"," ",
      "0","0",":","0","0",":","0","2",".","0","0","0", NL,
      "H","i"," ","h","i"," ","t","h","e","r","e">>

\* 00:00:02.000 --> 00:00:04.000 / Hi there
CueB ==
    <<"0","0",":","0","0",":","0","2",".","0","0","0"," ","-","-",">"," ",
      "0","0",":","0","0",":","0","4",".","0","0","0", NL,
      "H","i"," ","t","h","e","r","e">>

\* [00:01:03.000 --> 00:01:05.000] / ok
CueBracketed ==
    <<"[","0","0",":","0","1",":","0","3",".","0","0","0"," ","-","-",">"," ",
      "0","0",":","0","1",":","0","5",".","0","0","0","]", NL, "o","k">>

\* one block of three candidates: 00:00:01 BA / 00:00:02 BANA / 00:00:03 BANANA
BananaBlock ==
    <<"0","0",":","0","0",":","0","1"," ","B","A", NL,
      "0","0",":","0","0",":","0","2"," ","B","A","N","A", NL,
      "0","0",":","0","0",":","0","3"," ","B","A","N","A","N","A">>

\* one block of two candidates: 00:00:01 BA / 00:00:02 APPLE
AppleBlock ==
    <<"0","0",":","0","0",":","0","1"," ","B","A", NL,
      "0","0",":","0","0",":","0","2"," ","A","P","P","L","E">>

\* NOTE x
NoteBlock == <<"N","O","T","E"," ","x">>

\* two equal lines of plain text
PlainLines == <<"H","i"," ","h","i", NL, "H","i"," ","h","i">>

\* the blocks the enumerated documents are made of, each with the blank line
\* that ends it
DocPieces ==
    { WEBVTT \o <<NL, NL>>, CueA \o <<NL, NL>>, CueB \o <<NL, NL>>,
      CueBracketed \o <<NL, NL>>, BananaBlock \o <<NL, NL>>,
      AppleBlock \o <<NL, NL>>, NoteBlock \o <<NL, NL>>, PlainLines \o <<NL>> }

\* the end-to-end example of the specification, without a trailing blank line
HiThereDoc == WEBVTT \o <<NL, NL>> \o CueA \o <<NL, NL>> \o CueB

\* three lines of plain text, the second a repeat of the first: ab / ab / cd
PlainRepeatDoc == <<"a","b", NL, "a","b", NL, "c","d">>

\* a cue whose timestamps are no two-digit groups: 0:0:1.000 --> 0:0:2.000 / hi
CueMalformed ==
    <<"0",":","0",":","1",".","0","0","0"," ","-","-",">"," ",
      "0",":","0",":","2",".","0","0","0", NL, "h","i">>

\* a cue whose text is markup only: 00:00:04.000 --> 00:00:05.000 / <b>
CueEmptyText ==
    <<"0","0",":","0","0",":","0","4",".","0","0","0"," ","-","-",">"," ",
      "0","0",":","0","0",":","0","5",".","0","0","0", NL, "<","b",">">>

\* a document with a malformed cue, a cue, a block without a timestamp range, a
\* cue without text and a bracketed cue
SkipDoc ==
    WEBVTT \o <<NL, NL>> \o CueMalformed \o <<NL, NL>> \o CueA \o <<NL, NL>>
        \o AppleBlock \o <<NL, NL>> \o CueEmptyText \o <<NL, NL>> \o CueBracketed

\* a document none of whose blocks is a cue with text
AllBadDoc ==
    WEBVTT \o <<NL, NL>> \o CueMalformed \o <<NL, NL>> \o CueEmptyText
        \o <<NL, NL>> \o AppleBlock

\* a cue without milliseconds: 00:00:01 --> 00:00:02 / hi
CueNoMillis ==
    <<"0","0",":","0","0",":","0","1"," ","-","-",">"," ",
      "0","0",":","0","0",":","0","2", NL, "h","i">>

\* a cue with an identifier line and two text lines:
\* 7 / 00:00:02.000 --> 00:00:04.000 / Hi / there
CueNumbered ==
    <<"7", NL,
      "0","0",":","0","0",":","0","2",".","0","0","0"," ","-","-",">"," ",
      "0","0",":","0","0",":","0","4",".","0","0","0", NL,
      "H","i", NL, "t","h","e","r","e">>

\* a document of single-cue blocks of the three shapes
SingleCueDoc ==
    WEBVTT \o <<NL, NL>> \o CueNumbered \o <<NL, NL>> \o CueNoMillis
        \o <<NL, NL>> \o CueBracketed

\* the example of the module docstring with a text: [00:00:46.360 -->
\* 00:01:03.940] / ok
ExampleDoc ==
    <<"[","0","0",":","0","0",":","4","6",".","3","6","0"," ","-","-",">"," ",
      "0","0",":","0","1",":","0","3",".","9","4","0","]", NL, "o","k">>

\* a cue whose text has the word NOTE: 00:00:00.000 --> 00:00:02.000 / Please
\* NOTE this
CueNoteText ==
    <<"0","0",":","0","0",":","0","0",".","0","0","0"," ","-","-",">"," ",
      "0","0",":","0","0",":","0","2",".","0","0","0", NL,
      "P","l","e","a","s","e"," ","N","O","T","E"," ","t","h","i","s">>

\* a header, the cue with NOTE in its text, and a second cue
NoteTextDoc == WEBVTT \o <<NL, NL>> \o CueNoteText \o <<NL, NL>> \o CueB

DocSamples ==
    { HiThereDoc, WEBVTT \o <<NL, NL>> \o BananaBlock, PlainRepeatDoc, SkipDoc,
      AllBadDoc, SingleCueDoc, ExampleDoc, NoteTextDoc }

Docs == DocSamples \cup { Concat(ps) : ps \in SeqsUpTo(DocPieces, MaxDocPieces) }

\* the values of os.environ.get('filename', '')
Filenames == { <<>>, <<"a",".","V","T","T">> }

\* main() is entered: nothing has been read or computed yet
Init ==
    /\ entry = "main"
    /\ filename \in Filenames
    /\ raw_text \in Docs
    /\ is_vtt = FALSE
    /\ pc = "main"
    /\ captions = <<>> /\ ci = 0 /\ processed_lines = <<>>
    /\ processed = None /\ stdout = None
    /\ arg = None /\ returned = <<>>
    /\ LineIdle /\ WordIdle /\ VttcleanIdle

\* main: is_vtt = ...; clean_transcript(raw_text, is_vtt=is_vtt) is called
Main ==
    /\ pc = "main"
    /\ is_vtt' = DetectVtt(filename, raw_text)
    /\ pc' = "clean_transcript"
    /\ UNCHANGED <<entry, filename, raw_text, captions, ci, processed_lines,
                   similarity_threshold, lines, li, deduped, text, prev_text,
                   processed, arg, returned, stdout>>
    /\ UNCHANGED vttcleanVars

\* clean_transcript, `if is_vtt`: process_vtt(raw_text) is called; its three
\* substitutions and the split into caption blocks
TranscriptVtt ==
    /\ pc = "clean_transcript"
    /\ is_vtt
    /\ captions' = CaptionBlocks(raw_text)
    /\ ci' = 1
    /\ processed_lines' = <<>>
    /\ pc' = "caption_loop"
    /\ UNCHANGED <<entry, filename, raw_text, is_vtt, similarity_threshold,
                   lines, li, deduped, text, prev_text, processed, arg, returned,
                   stdout>>
    /\ UNCHANGED vttcleanVars

\* process_vtt: one iteration of `for caption in captions`
ProcessCaption ==
    /\ pc = "caption_loop"
    /\ ci <= Len(captions)
    /\ processed_lines' = processed_lines \o CaptionLines(captions[ci])
    /\ ci' = ci + 1
    /\ UNCHANGED <<entry, pc, filename, raw_text, is_vtt, captions,
                   similarity_threshold, lines, li, deduped, text, prev_text,
                   processed, arg, returned, stdout>>
    /\ UNCHANGED vttcleanVars

\* process_vtt returns "\n".join(processed_lines); clean_transcript returns it as
\* it is (the two stutter removals of this branch are commented out)
ProcessVttReturn ==
    /\ pc = "caption_loop"
    /\ ci > Len(captions)
    /\ processed' = Join(<<NL>>, processed_lines)
    /\ pc' = "print"
    /\ UNCHANGED <<entry, filename, raw_text, is_vtt, captions, ci,
                   processed_lines, similarity_threshold, lines, li, deduped,
                   text, prev_text, arg, returned, stdout>>
    /\ UNCHANGED vttcleanVars

\* clean_transcript, `else`: processed = clean_text(raw_text), then
\* remove_line_stuttering(processed) is called with the default threshold
TranscriptPlain ==
    /\ pc = "clean_transcript"
    /\ ~is_vtt
    /\ processed' = clean_text(raw_text)
    /\ similarity_threshold' = DefaultThreshold
    /\ pc' = "line_split"
    /\ UNCHANGED <<entry, filename, raw_text, is_vtt, captions, ci,
                   processed_lines, lines, li, deduped, text, prev_text, arg,
                   returned, stdout>>
    /\ UNCHANGED vttcleanVars

\* main: print(cleaned_text)
PrintCleaned ==
    /\ pc = "print"
    /\ stdout' = processed
    /\ pc' = "done"
    /\ UNCHANGED <<entry, filename, raw_text, is_vtt, captions, ci,
                   processed_lines, similarity_threshold, lines, li, deduped,
                   text, prev_text, processed, arg, returned>>
    /\ UNCHANGED vttcleanVars

Next ==
    \/ Main \/ TranscriptVtt \/ ProcessCaption \/ ProcessVttReturn
    \/ TranscriptPlain \/ LineSplit \/ LineStep \/ LineReturn
    \/ WordLoop \/ WordTriple \/ WordReturn \/ PrintCleaned

Spec == Init /\ [][Next]_vars

\* ------------------------------------------------- vttclean.process_vtt
\* re.sub(r'<[^>]+>|\s+', ' ', s) applied to s[pos..]: at the leftmost position
\* where a tag or a run of whitespace begins, the tag, or else the whole run, is
\* replaced by one space
RECURSIVE VttcleanSubFrom(_, _)
VttcleanSubFrom(s, pos) ==
    LET starts == { p \in pos..Len(s) : TagMatches(s, p) # {} \/ IsSpace(s[p]) }
    IN  IF starts = {} THEN Slice(s, pos, Len(s))
        ELSE LET p == MinOf(starts)
                 q == IF TagMatches(s, p) # {} THEN MaxOf(TagMatches(s, p))
                      ELSE MaxOf({ g \in p..Len(s) : IsSpaceRun(s, p, g) })
             IN  Slice(s, pos, p - 1) \o <<" ">> \o VttcleanSubFrom(s, q + 1)

\* vttclean.clean_text: re.sub(r'<[^>]+>|\s+', ' ', text).strip()
vttclean_clean_text(t) == Strip(VttcleanSubFrom(t, 1))

\* (\d{2}:\d{2}:\d{2})\.(\d{3}) --> (\d{2}:\d{2}:\d{2})\.(\d{3})
VttcleanRangeTemplate ==
    MillisTemplate \o <<" ", "-", "-", ">", " ">> \o MillisTemplate

\* whether re.match of that pattern matches the line
VttcleanMatch(line) == MatchesTemplate(line, 1, VttcleanRangeTemplate)

\* 00:00:02.000 --> 00:00:04.000, a timestamp line alone
RangeOnly ==
    <<"0","0",":","0","0",":","0","2",".","0","0","0"," ","-","-",">"," ",
      "0","0",":","0","0",":","0","4",".","0","0","0">>

\* 00:00:46.360 --> 00:01:03.940 / ok
CueExample ==
    <<"0","0",":","0","0",":","4","6",".","3","6","0"," ","-","-",">"," ",
      "0","0",":","0","1",":","0","3",".","9","4","0", NL, "o","k">>

\* the lines and blocks the enumerated contents of vttclean are made of
VttcleanPieces ==
    { WEBVTT, <<>>, CueA, CueBracketed, CueNumbered, CueEmptyText, RangeOnly,
      <<"a"," ","<","b",">"," ","c">> }

VttcleanInputs ==
    { CueExample }
        \cup { Join(<<NL>>, ps) : ps \in SeqsUpTo(VttcleanPieces, MaxVttPieces) }

\* vttclean.process_vtt(arg) is entered
InitVttclean ==
    /\ entry = "vttclean.process_vtt"
    /\ arg \in VttcleanInputs
    /\ pc = "vtt_split"
    /\ returned = <<>>
    /\ MainIdle /\ LineIdle /\ WordIdle /\ VttcleanIdle

\* processed_captions = []; lines = content.splitlines(); i = 0 (li is i + 1)
VttSplit ==
    /\ pc = "vtt_split"
    /\ lines' = SplitLines(arg)
    /\ li' = 1
    /\ processed_captions' = <<>>
    /\ pc' = "vtt_scan"
    /\ UNCHANGED <<entry, filename, raw_text, is_vtt, captions, ci,
                   processed_lines, similarity_threshold, deduped, text,
                   prev_text, processed, arg, returned, stdout, start_timestamp,
                   subtitle_lines>>

\* one iteration of `while i < len(lines)` up to its inner loop: a line that
\* matches starts a cue, any other line is passed over
VttScan ==
    /\ pc = "vtt_scan"
    /\ li <= Len(lines)
    /\ li' = li + 1
    /\ IF VttcleanMatch(lines[li])
       THEN /\ start_timestamp' = Group1(lines[li])
            /\ subtitle_lines' = <<>>
            /\ pc' = "vtt_collect"
       ELSE UNCHANGED <<start_timestamp, subtitle_lines, pc>>
    /\ UNCHANGED <<entry, filename, raw_text, is_vtt, captions, ci,
                   processed_lines, similarity_threshold, lines, deduped, text,
                   prev_text, processed, arg, returned, stdout,
                   processed_captions>>

\* one iteration of `while i < len(lines) and lines[i].strip()`
VttCollect ==
    /\ pc = "vtt_collect"
    /\ li <= Len(lines) /\ Strip(lines[li]) # <<>>
    /\ subtitle_lines' = Append(subtitle_lines, lines[li])
    /\ li' = li + 1
    /\ UNCHANGED <<entry, pc, filename, raw_text, is_vtt, captions, ci,
                   processed_lines, similarity_threshold, lines, deduped, text,
                   prev_text, processed, arg, returned, stdout, start_timestamp,
                   processed_captions>>

\* the inner loop ends: the text is joined and cleaned, and appended with the
\* start time when it is not empty
VttEmit ==
    /\ pc = "vtt_collect"
    /\ ~(li <= Len(lines) /\ Strip(lines[li]) # <<>>)
    /\ LET cleaned_text == vttclean_clean_text(Join(<<" ">>, subtitle_lines))
       IN  processed_captions' =
              IF cleaned_text # <<>>
              THEN Append(processed_captions,
                          start_timestamp \o <<" ">> \o cleaned_text)
              ELSE processed_captions
    /\ pc' = "vtt_scan"
    /\ UNCHANGED <<entry, filename, raw_text, is_vtt, captions, ci,
                   processed_lines, similarity_threshold, lines, li, deduped,
                   text, prev_text, processed, arg, returned, stdout,
                   start_timestamp, subtitle_lines>>

\* the outer loop ends: return '\n'.join(processed_captions)
VttReturn ==
    /\ pc = "vtt_scan"
    /\ li > Len(lines)
    /\ returned' = Append(returned, Join(<<NL>>, processed_captions))
    /\ pc' = "vtt_done"
    /\ UNCHANGED <<entry, filename, raw_text, is_vtt, captions, ci,
                   processed_lines, similarity_threshold, lines, li, deduped,
                   text, prev_text, processed, arg, stdout, start_timestamp,
                   subtitle_lines, processed_captions>>

NextVttclean == VttSplit \/ VttScan \/ VttCollect \/ VttEmit \/ VttReturn

SpecVttclean == InitVttclean /\ [][NextVttclean]_vars

\* both variants of process_vtt: main of clean-transcript.py, or
\* vttclean.process_vtt, is entered
InitProcessVtt == Init \/ InitVttclean

NextProcessVtt == Next \/ NextVttclean

SpecProcessVtt == InitProcessVtt /\ [][NextProcessVtt]_vars

\* main, or remove_line_stuttering alone, is entered
InitOrder == Init \/ InitLine

SpecOrder == InitOrder /\ [][Next]_vars

\* the two loops: a caller that has called nothing yet calls
\* remove_word_stuttering or vttclean.process_vtt
InitLoops ==
    /\ entry = "caller"
    /\ pc = "call"
    /\ arg = None
    /\ returned = <<>>
    /\ MainIdle /\ LineIdle /\ WordIdle /\ VttcleanIdle

\* remove_word_stuttering(a) is called
CallWord ==
    /\ pc = "call"
    /\ \E a \in WordInputs : arg' = a /\ text' = a
    /\ entry' = "remove_word_stuttering"
    /\ prev_text' = None
    /\ pc' = "word_loop"
    /\ UNCHANGED <<filename, raw_text, is_vtt, captions, ci, processed_lines,
                   similarity_threshold, lines, li, deduped, processed, returned,
                   stdout>>
    /\ UNCHANGED vttcleanVars

\* vttclean.process_vtt(a) is called
CallVttclean ==
    /\ pc = "call"
    /\ \E a \in VttcleanInputs : arg' = a
    /\ entry' = "vttclean.process_vtt"
    /\ pc' = "vtt_split"
    /\ UNCHANGED <<filename, raw_text, is_vtt, captions, ci, processed_lines,
                   similarity_threshold, lines, li, deduped, text, prev_text,
                   processed, returned, stdout>>
    /\ UNCHANGED vttcleanVars

NextLoops ==
    \/ CallWord \/ WordLoop \/ WordTriple \/ WordReturn
    \/ CallVttclean \/ NextVttclean

\* the variables that say where a running function is: the statement, the line
\* index, and the text of the pass before
ControlVars == <<pc, li, prev_text>>

\* the control flow of the two functions: which statement follows which, and how
\* the loops move on. Every step of NextLoops is such a step, and one is possible
\* exactly when a step of NextLoops that changes the state is
ControlStep ==
    \/ /\ pc = "call"
       /\ pc' \in {"word_loop", "vtt_split"}
       /\ UNCHANGED <<li, prev_text>>
    \/ /\ pc = "word_loop" /\ StutterLoopContinues(text, prev_text)
       /\ prev_text' = text
       /\ UNCHANGED <<pc, li>>
    \/ /\ pc = "word_loop" /\ ~StutterLoopContinues(text, prev_text)
       /\ pc' = "word_return"
       /\ UNCHANGED <<li, prev_text>>
    \/ /\ pc = "word_return"
       /\ pc' = "word_done"
       /\ UNCHANGED <<li, prev_text>>
    \/ /\ pc = "vtt_split"
       /\ pc' = "vtt_scan" /\ li' = 1
       /\ UNCHANGED prev_text
    \/ /\ pc = "vtt_scan" /\ li <= Len(lines)
       /\ li' = li + 1 /\ pc' \in {"vtt_scan", "vtt_collect"}
       /\ UNCHANGED prev_text
    \/ /\ pc = "vtt_scan" /\ li > Len(lines)
       /\ pc' = "vtt_done"
       /\ UNCHANGED <<li, prev_text>>
    \/ /\ pc = "vtt_collect" /\ li <= Len(lines) /\ Strip(lines[li]) # <<>>
       /\ li' = li + 1
       /\ UNCHANGED <<pc, prev_text>>
    \/ /\ pc = "vtt_collect" /\ ~(li <= Len(lines) /\ Strip(lines[li]) # <<>>)
       /\ pc' = "vtt_scan"
       /\ UNCHANGED <<li, prev_text>>

\* a function that runs takes its next step: the interpreter runs one thread and
\* nothing can hold it up
SpecLoops == InitLoops /\ [][NextLoops]_vars /\ WF_ControlVars(ControlStep)

\* ------------------------------------------------- properties of the pipeline
\* the lines main has printed
OutputLines == SplitOn(stdout, NL)

\* whether main has run to its end on input it took to be cue-timed
VttRunDone == entry = "main" /\ pc = "done" /\ is_vtt

\* C1: a cue-timed run prints lines that went through the word stutter and the
\* line stutter removal: the two-cue example prints the one line `00:00:00 Hi
\* there`, no printed line has a repeated adjacent word, and no printed line
\* without a turn marker is as similar as 0.8 to the line printed before it.
C1_VttOutputDeduplicated ==
    VttRunDone =>
        /\ raw_text = HiThereDoc =>
              stdout = <<"0","0",":","0","0",":","0","0"," ",
                         "H","i"," ","t","h","e","r","e">>
        /\ \A k \in 1..Len(OutputLines) : ~HasAdjacentRepeat(OutputLines[k])
        /\ \A k \in 2..Len(OutputLines) :
              ~Contains(OutputLines[k], SPEAKER_TURN) =>
                  ~AtLeast(Ratio(Strip(OutputLines[k - 1]), Strip(OutputLines[k])),
                           <<8, 10>>)

\* a `timestamp text` candidate line: HH:MM:SS, a space, a text
IsCandidateLine(l) ==
    /\ MatchesTemplate(l, 1, ClockTemplate)
    /\ Len(l) > Len(ClockTemplate) + 1
    /\ l[Len(ClockTemplate) + 1] = " "

CandidateStamp(l) == Slice(l, 1, Len(ClockTemplate))

CandidateText(l) == Slice(l, Len(ClockTemplate) + 2, Len(l))

\* a block of two or more lines, each of them a candidate line
IsCandidateBlock(c) ==
    LET ls == SplitOn(c, NL)
    IN  Len(ls) >= 2 /\ \A k \in 1..Len(ls) : IsCandidateLine(ls[k])

\* a candidate block in which each text is a prefix of the next one
IsPrefixChainBlock(c) ==
    LET ls == SplitOn(c, NL)
    IN  /\ IsCandidateBlock(c)
        /\ \A k \in 1..(Len(ls) - 1) :
              StartsWith(CandidateText(ls[k + 1]), CandidateText(ls[k]))

\* the caption of a prefix chain: its first timestamp and its last text
ChainCaption(c) ==
    LET ls == SplitOn(c, NL)
    IN  CandidateStamp(ls[1]) \o <<" ">> \o CandidateText(ls[Len(ls)])

\* C2: a block of candidate lines in which each text is a prefix of the next
\* yields exactly one caption, with the first timestamp and the last text.
C2_PrefixChainMerged ==
    (VttRunDone /\ \A k \in 1..Len(captions) : IsPrefixChainBlock(captions[k])) =>
        processed_lines = [ k \in 1..Len(captions) |-> ChainCaption(captions[k]) ]

\* the elements of a set of integers in increasing order
RECURSIVE Sorted(_)
Sorted(S) == IF S = {} THEN <<>> ELSE <<MinOf(S)>> \o Sorted(S \ {MinOf(S)})

\* the indices at which a group of candidates begins: the first, and each whose
\* predecessor's text is no prefix of its text
GroupStarts(ls) ==
    {1} \cup { k \in 2..Len(ls) :
                 ~StartsWith(CandidateText(ls[k]), CandidateText(ls[k - 1])) }

\* the merged captions of a candidate block, in order: for each group the
\* timestamp of its first candidate and the text of its last
MergedCaptions(c) ==
    LET ls     == SplitOn(c, NL)
        starts == Sorted(GroupStarts(ls))
        last(g) == IF g = Len(starts) THEN Len(ls) ELSE starts[g + 1] - 1
    IN  [ g \in 1..Len(starts) |->
            CandidateStamp(ls[starts[g]]) \o <<" ">> \o CandidateText(ls[last(g)]) ]

\* C3: the candidates of a block are merged group by group: one caption for the
\* first candidate and one more for every adjacent pair without the prefix
\* relation, in candidate order, each with its group's first timestamp and last
\* text; (t1,BA),(t2,APPLE) yields (t1,BA) then (t2,APPLE).
C3_GroupsMerged ==
    (VttRunDone /\ \A k \in 1..Len(captions) : IsCandidateBlock(captions[k])) =>
        processed_lines =
            Concat([ k \in 1..Len(captions) |-> MergedCaptions(captions[k]) ])

\* whether raw has a token [HH:MM:SS somewhere
HasBracketedStamp(raw) ==
    \E i \in 1..Len(raw) : MatchesTemplate(raw, i, <<"[">> \o ClockTemplate)

\* C10: the input is taken to be cue-timed exactly when the filename ends in
\* .vtt (in any case), or the content begins with WEBVTT, or the content has a
\* bracketed timestamp [HH:MM:SS of any hour, minute and second.
C10_DetectionPolicy ==
    (entry = "main" /\ pc # "main") =>
        (is_vtt <=> \/ EndsWith(Lower(filename), VttExtension)
                    \/ StartsWith(raw_text, WEBVTT)
                    \/ HasBracketedStamp(raw_text))

\* whether main has run to its end on input it took to be plain text
PlainRunDone == entry = "main" /\ pc = "done" /\ ~is_vtt

\* the lines of ls a line-by-line removal of near duplicates keeps at threshold t:
\* the first, every line with a turn marker, and every line whose ratio to the
\* line kept last is below t
RECURSIVE KeptLines(_, _, _)
KeptLines(kept, rest, t) ==
    IF rest = <<>> THEN kept
    ELSE LET line == Head(rest)
             keep == \/ kept = <<>>
                     \/ Contains(line, SPEAKER_TURN)
                     \/ ~AtLeast(Ratio(Strip(kept[Len(kept)]), Strip(line)), t)
         IN  KeptLines(IF keep THEN Append(kept, line) ELSE kept, Tail(rest), t)

\* C11: a plain-text run prints the input lines without the near duplicates, as
\* separate lines in input order: for input whose lines are not empty, already
\* normalized, and whose kept lines have no repeated adjacent word, the output is the lines
\* kept at threshold 0.8, one per line.
C11_PlainLinesDeduplicated ==
    LET ls   == SplitLines(raw_text)
        kept == KeptLines(<<>>, ls, <<8, 10>>)
    IN  (/\ PlainRunDone
         /\ \A k \in 1..Len(ls) : ls[k] # <<>> /\ clean_text(ls[k]) = ls[k]
         /\ ~HasAdjacentRepeat(Join(<<NL>>, kept)))
            => stdout = Join(<<NL>>, kept)

\* a timestamp line that begins HH:MM:SS.mmm, then whitespace or none, then -->
HasStrictStart(tl) ==
    /\ Len(tl) >= Len(MillisTemplate) + Len(Arrow)
    /\ \A k \in 1..Len(MillisTemplate) :
          IF MillisTemplate[k] = D THEN tl[k] \in Digits ELSE tl[k] = MillisTemplate[k]
    /\ \E f \in (Len(MillisTemplate) + 1)..Len(tl) :
          /\ \A k \in (Len(MillisTemplate) + 1)..(f - 1) : tl[k] \in SpaceChars
          /\ OccursAt(tl, Arrow, f)

\* a block that has a line with -->, whose first such line, without brackets
\* around it, is a strict timestamp line, and whose following lines leave text
\* after normalization
IsGoodBlock(c) ==
    LET ls == SplitOn(Strip(c), NL)
        at == { k \in 1..Len(ls) : Contains(ls[k], Arrow) }
    IN  /\ at # {}
        /\ HasStrictStart(StripChars(ls[MinOf(at)], {"[", "]"}))
        /\ clean_text(Join(<<" ">>, Slice(ls, MinOf(at) + 1, Len(ls)))) # <<>>

\* the number of good blocks among the first n caption blocks
GoodBlocks(n) == Cardinality({ k \in 1..n : IsGoodBlock(captions[k]) })

\* C12: process_vtt goes through every block; a block without a timestamp line,
\* with a timestamp that fails the strict pattern, or without text after
\* normalization adds no line, every other block adds one line, and a document
\* without a good block gives the empty result.
C12_BadBlocksSkipped ==
    /\ (entry = "main" /\ pc = "caption_loop") =>
          Len(processed_lines) = GoodBlocks(ci - 1)
    /\ VttRunDone =>
          /\ ci = Len(captions) + 1
          /\ Len(processed_lines) = GoodBlocks(Len(captions))
          /\ GoodBlocks(Len(captions)) = 0 => stdout = <<>>

\* the document with three kinds of bad blocks between good ones has been
\* processed, and its two good cues are the two lines of the result
C12_Witness ==
    /\ VttRunDone
    /\ raw_text = SkipDoc
    /\ Len(captions) = 5
    /\ processed_lines =
          << <<"0","0",":","0","0",":","0","0"," ","H","i"," ","h","i"," ",
               "t","h","e","r","e">>,
             <<"0","0",":","0","1",":","0","3"," ","o","k">> >>

\* HH:MM:SS --> HH:MM:SS and HH:MM:SS.mmm --> HH:MM:SS.mmm, each also in brackets
RangeTemplate(tpl) == tpl \o <<" ", "-", "-", ">", " ">> \o tpl

MillisRangeForms ==
    { RangeTemplate(MillisTemplate),
      <<"[">> \o RangeTemplate(MillisTemplate) \o <<"]">> }

RangeForms ==
    MillisRangeForms \cup { RangeTemplate(ClockTemplate),
                            <<"[">> \o RangeTemplate(ClockTemplate) \o <<"]">> }

\* whether the line l is a timestamp range of one of the given forms
IsRangeLine(l, forms) ==
    \E tpl \in forms : Len(l) = Len(tpl) /\ MatchesTemplate(l, 1, tpl)

\* the indices of the timestamp-range lines of the block c
RangeLines(c, forms) ==
    LET ls == SplitOn(c, NL)
    IN  { k \in 1..Len(ls) : IsRangeLine(ls[k], forms) }

\* the normalized text of the lines of block c after its line k
TextAfter(c, k) ==
    LET ls == SplitOn(c, NL)
    IN  clean_text(Join(<<" ">>, Slice(ls, k + 1, Len(ls))))

\* a single-cue block: exactly one timestamp-range line, no --> in a line before
\* it, and text after it
IsSingleCue(c, forms) ==
    LET ls == SplitOn(c, NL)
        at == RangeLines(c, forms)
    IN  /\ Cardinality(at) = 1
        /\ \A k \in 1..(MinOf(at) - 1) : ~Contains(ls[k], Arrow)
        /\ TextAfter(c, MinOf(at)) # <<>>

\* the line a single-cue block gives: the whole seconds of its start time, a
\* space, the normalized text of the lines after the timestamp line
SingleCueLine(c, forms) ==
    LET ls == SplitOn(c, NL)
        k  == MinOf(RangeLines(c, forms))
        tl == ls[k]
        at == IF tl[1] = "[" THEN 2 ELSE 1
    IN  Slice(tl, at, at + Len(ClockTemplate) - 1) \o <<" ">> \o TextAfter(c, k)

\* the iteration of process_vtt's loop over a single-cue block appends that
\* block's line and nothing else
SingleCueStep(forms) ==
    (/\ entry = "main" /\ pc = "caption_loop" /\ ci <= Len(captions)
     /\ IsSingleCue(captions[ci], forms))
        => processed_lines' =
              Append(processed_lines, SingleCueLine(captions[ci], forms))

\* C13 as stated: timestamp ranges with or without the millisecond part.
C13_Original == [][SingleCueStep(RangeForms)]_vars

\* C13: a block with exactly one timestamp-range line HH:MM:SS.mmm -->
\* HH:MM:SS.mmm, in square brackets or not, with no --> in a line before it and
\* with text after it, gives exactly one line: the text of all lines after the
\* timestamp line, joined and normalized; the lines before it add nothing.
C13_SingleCueBlock == [][SingleCueStep(MillisRangeForms)]_vars

\* the block `7 / 00:00:02.000 --> 00:00:04.000 / Hi / there` has been processed
\* and has given the line `00:00:02 Hi there`
C13_Witness ==
    /\ entry = "main" /\ pc = "caption_loop"
    /\ raw_text = SingleCueDoc
    /\ ci = 2
    /\ captions[1] = CueNumbered
    /\ processed_lines =
          << <<"0","0",":","0","0",":","0","2"," ","H","i"," ","t","h","e","r","e">> >>

\* the whole seconds HH:MM:SS of the start time of the timestamp line tl: the
\* eight characters before the .mmm that ends before the first -->
StartSeconds(tl) ==
    LET a == MinOf({ p \in 1..Len(tl) : OccursAt(tl, Arrow, p) })
        e == MaxOf({ p \in 1..(a - 1) : ~IsSpace(tl[p]) })
    IN  Slice(tl, e - 11, e - 4)

\* a line `HH:MM:SS text`: one space after the time, and text right after it
IsStampedLine(l) ==
    /\ MatchesTemplate(l, 1, ClockTemplate)
    /\ Len(l) >= Len(ClockTemplate) + 2
    /\ l[Len(ClockTemplate) + 1] = " "
    /\ ~IsSpace(l[Len(ClockTemplate) + 2])

\* 00:00:46 ok
ExampleLine == <<"0","0",":","0","0",":","4","6"," ","o","k">>

\* what an iteration of the loop of clean-transcript's process_vtt appends: nothing,
\* or the start seconds of a timestamp line of the block, a space, and the
\* normalized text of the lines after it
StampedStep ==
    (entry = "main" /\ pc = "caption_loop" /\ ci <= Len(captions)) =>
        LET ls == SplitOn(captions[ci], NL)
        IN  \/ processed_lines' = processed_lines
            \/ \E k \in 1..Len(ls) :
                  /\ Contains(ls[k], Arrow)
                  /\ processed_lines' =
                        Append(processed_lines,
                               StartSeconds(ls[k]) \o <<" ">>
                                   \o TextAfter(captions[ci], k))

\* what vttclean's process_vtt appends when a cue's text has been collected:
\* nothing, or a line that begins with the start seconds of the cue's timestamp
\* line
VttcleanStampedStep ==
    (entry = "vttclean.process_vtt" /\ pc = "vtt_collect" /\ pc' = "vtt_scan") =>
        \/ processed_captions' = processed_captions
        \/ /\ Len(processed_captions') = Len(processed_captions) + 1
           /\ SubSeq(processed_captions', 1, Len(processed_captions))
                 = processed_captions
           /\ Slice(processed_captions'[Len(processed_captions')], 1,
                    Len(ClockTemplate))
                 = StartSeconds(lines[li - Len(subtitle_lines) - 1])

RawBlocks == SplitCaptions(Strip(raw_text))

\* the indices of the raw blocks that are neither the header block nor an
\* annotation or style block
RawCueIndices ==
    { k \in 1..Len(RawBlocks) :
         /\ ~(k = 1 /\ StartsWith(Lower(RawBlocks[k]), Lower(WEBVTT)))
         /\ ~StartsWith(RawBlocks[k], <<"N","O","T","E">>)
         /\ ~StartsWith(RawBlocks[k], <<"S","T","Y","L","E">>) }

\* the line of a good block: the start seconds of its timestamp line, a space,
\* the normalized text of the lines after it; no line for any other block
BlockLines(c) ==
    LET ls == SplitOn(Strip(c), NL)
        at == { k \in 1..Len(ls) : Contains(ls[k], Arrow) }
    IN  IF IsGoodBlock(c)
        THEN << StartSeconds(ls[MinOf(at)]) \o <<" ">>
                    \o TextAfter(Strip(c), MinOf(at)) >>
        ELSE <<>>

\* C15: the stripping of the header and of the annotation and style blocks takes
\* nothing else away: the lines process_vtt gives are, in order, the lines of the
\* document's own cue blocks, each good block giving one line with its own
\* timestamp and its whole text.
C15_StrippingKeepsCues ==
    VttRunDone =>
        LET ks == Sorted(RawCueIndices)
        IN  processed_lines =
                Concat([ g \in 1..Len(ks) |-> BlockLines(RawBlocks[ks[g]]) ])

\* whether the elements of a are elements of b in the same relative order
RECURSIVE IsSubsequence(_, _)
IsSubsequence(a, b) ==
    IF a = <<>> THEN TRUE
    ELSE IF b = <<>> THEN FALSE
    ELSE IF Head(a) = Head(b) THEN IsSubsequence(Tail(a), Tail(b))
    ELSE IsSubsequence(a, Tail(b))

\* for each of the first n caption blocks its line, or None when it has none
LinesOfBlocks(n) ==
    [ k \in 1..n |-> IF BlockLines(captions[k]) = <<>> THEN None
                     ELSE BlockLines(captions[k])[1] ]

\* C16: the lines remove_line_stuttering keeps and returns are lines of its input
\* in their input order, the first line among them and none added or rewritten;
\* the lines process_vtt gives follow the order of their blocks.
C16_OrderPreserved ==
    /\ (entry = "remove_line_stuttering" /\ pc \in {"line_loop", "line_done"}) =>
          /\ IsSubsequence(deduped, SubSeq(SplitOn(arg, NL), 1, li - 1))
          /\ li > 1 => deduped[1] = SplitOn(arg, NL)[1]
          /\ (pc = "line_done" /\ deduped # <<>>) =>
                SplitOn(returned[1], NL) = deduped
    /\ (entry = "main" /\ pc = "caption_loop") =>
          IsSubsequence(processed_lines, LinesOfBlocks(ci - 1))
    /\ VttRunDone =>
          /\ IsSubsequence(processed_lines, LinesOfBlocks(Len(captions)))
          /\ processed_lines # <<>> => OutputLines = processed_lines

\* three different lines went in, the second was dropped, and the first and the
\* third have been returned in that order
C16_Witness ==
    /\ entry = "remove_line_stuttering" /\ pc = "line_done"
    /\ Len(lines) = 3 /\ Len(deduped) = 2
    /\ lines[1] # lines[2] /\ lines[2] # lines[3] /\ lines[1] # lines[3]
    /\ deduped = <<lines[1], lines[3]>>
    /\ returned[1] = lines[1] \o <<NL>> \o lines[3]

\* C17: what clean_text returns is normalized single-line text: no newline, no
\* two whitespace characters in a row, no angle-bracket span, and no whitespace
\* at either end.
C17_CleanTextNormalized ==
    (entry = "clean_text" /\ returned # <<>>) =>
        LET out == returned[1]
        IN  /\ ~Contains(out, <<NL>>)
            /\ \A k \in 1..(Len(out) - 1) : ~(IsSpace(out[k]) /\ IsSpace(out[k + 1]))
            /\ NoTags(out)
            /\ Strip(out) = out

\* the number of word tokens of t
WordCount(t) ==
    LET segs == Segments(t)
    IN  Cardinality({ k \in 1..Len(segs) : IsWordToken(segs[k]) })

\* a pass of the loop of remove_word_stuttering that changes the text leaves
\* fewer word tokens, and at least one
WordPassReduces ==
    (/\ entry = "remove_word_stuttering"
     /\ pc = "word_loop" /\ pc' = "word_loop" /\ text' # text)
        => WordCount(text') < WordCount(text) /\ WordCount(text') >= 1

\* every iteration of the outer and of the inner loop of vttclean.process_vtt
\* moves the index one line on, and the index never passes the end of the lines
\* by more than one
VttIndexAdvances ==
    entry = "vttclean.process_vtt" =>
        /\ (pc = "vtt_scan" /\ pc' # "vtt_done") => li' = li + 1
        /\ (pc = "vtt_collect" /\ pc' = "vtt_collect") => li' = li + 1
        /\ (pc = "vtt_collect" /\ pc' = "vtt_scan") => li' = li
        /\ pc' \in {"vtt_scan", "vtt_collect", "vtt_done"} => li' <= Len(lines') + 1

\* C18: both loops end. Each pass of remove_word_stuttering's loop that changes
\* the text takes at least one word token away and leaves at least one, so there
\* are fewer changing passes than words, and the function returns; each iteration
\* of vttclean.process_vtt's loops moves the line index on, and it returns. Every
\* step of the two functions is a step of their control flow.
C18_LoopsTerminate ==
    /\ [][WordPassReduces /\ VttIndexAdvances]_vars
    /\ [][ControlStep]_vars
    /\ <>(pc \in {"word_done", "vtt_done"})

\* `a a a a` took two changing passes and has been returned as `a`
C18_Witness ==
    /\ entry = "remove_word_stuttering" /\ pc = "word_done"
    /\ arg = <<"a"," ","a"," ","a"," ","a">>
    /\ returned[1] = <<"a">>

====
